---------------------------- MODULE Spec2Model ----------------------------
(***************************************************************************)
(* A model of backend/python/multimodal_processor.py: the four pipelines   *)
(* of MultimodalProcessor (process_text, process_image, process_audio,     *)
(* process_video), the scratch files they create under config.temp_dir and *)
(* the four /process/* endpoints that wrap their result in a               *)
(* ProcessingResponse.                                                     *)
(*                                                                         *)
(* Numbers with a fraction are kept as integers: scores and confidences in *)
(* hundredths (0.8 is 80), durations in half seconds, and video timestamps *)
(* as fractions [num, den].  An Optional value is the empty tuple (None)   *)
(* or a one-element tuple.                                                 *)
(***************************************************************************)
EXTENDS Integers, Sequences, FiniteSets, TLC

VARIABLES
    globals,    \* the names the module-level import block bound
    models,     \* the keys of processor.models
    now,        \* the value datetime.now().timestamp() returns
    disk,       \* the files of config.temp_dir: path -> the request that wrote it (0: no file)
    req,        \* per request: the content it posts and what its collaborators will answer
    pc,         \* per request: the position of its endpoint / pipeline coroutine
    loc,        \* per request: the locals of process_video (and of the endpoint)
    aloc,       \* per request: the locals of its process_audio invocation
    response,   \* per request: the ProcessingResponse its endpoint returned (None before)
    calls       \* per request: the collaborators invoked so far, in order

vars == <<globals, models, now, disk, req, pc, loc, aloc, response, calls>>

-----------------------------------------------------------------------------
(* Bounds of the model *)

NumReq == 2
MaxClock == 1
MaxDuration2 == 23
MaxFaces == 2
MaxPixels == 2
MaxCopies == 2

(* Program constants *)

SummaryMinChars == 500
KeywordLimit == 20
MaxSamples == 10
BlueThreshold == 150
GreenThreshold == 100
DarkThreshold == 100
TopColors == 5

-----------------------------------------------------------------------------
(* Values *)

None == <<>>
Some(x) == <<x>>

Return(v) == [raises |-> FALSE, value |-> v]
Raise(type, msg) == [raises |-> TRUE, exc |-> [type |-> type, msg |-> msg]]

\* The answer kept for a collaborator that is not loaded: no pipeline reads it.
NotCalled == Return(<<>>)

CancelledError == [type |-> "CancelledError", msg |-> ""]

\* except Exception: asyncio.CancelledError derives from BaseException.
IsException(e) == e.type # "CancelledError"

Min(a, b) == IF a <= b THEN a ELSE b

Take(s, n) == SubSeq(s, 1, Min(n, Len(s)))

RECURSIVE SelectSeqBy(_, _)
SelectSeqBy(s, keep) ==
    IF s = <<>> THEN <<>>
    ELSE (IF Head(s) \in keep THEN <<Head(s)>> ELSE <<>>) \o SelectSeqBy(Tail(s), keep)

Range(s) == {s[i] : i \in DOMAIN s}

-----------------------------------------------------------------------------
(* The import block and _initialize_models *)

ImportOrder ==
    <<"cv2", "np", "Image", "torch", "transformers", "pipeline", "librosa", "sr",
      "VideoFileClip", "pytesseract", "spacy", "SentenceTransformer">>

\* One try block imports every library: the first ImportError leaves the later
\* names unbound.
ImportedNames(n) == {ImportOrder[i] : i \in 1..n}

ModelOrder ==
    <<"sentiment", "ner", "summarization", "embeddings", "face_cascade",
      "speech_recognizer", "nlp">>

ModelLibrary(m) ==
    CASE m \in {"sentiment", "ner", "summarization"} -> "transformers"
      [] m = "embeddings" -> "SentenceTransformer"
      [] m = "face_cascade" -> "cv2"
      [] m = "speech_recognizer" -> "sr"
      [] m = "nlp" -> "spacy"

\* _initialize_models loads the models in order inside one try block; the load
\* of model number failAt raises (0: none does), which ends the loading.  The
\* text models are built with pipeline(...), a NameError when only
\* "import transformers" succeeded.
_initialize_models(g, failAt) ==
    LET attempted(i) == ModelLibrary(ModelOrder[i]) \in g
        raisesAt(i) ==
            /\ attempted(i)
            /\ \/ i = failAt
               \/ ModelLibrary(ModelOrder[i]) = "transformers" /\ "pipeline" \notin g
        loaded(i) == attempted(i) /\ \A j \in 1..i : ~raisesAt(j)
    IN  {ModelOrder[i] : i \in {k \in 1..Len(ModelOrder) : loaded(k)}}

-----------------------------------------------------------------------------
(* process_text *)

Lower(label) ==
    CASE label = "POSITIVE" -> "positive"
      [] label = "NEGATIVE" -> "negative"
      [] label = "NEUTRAL" -> "neutral"
      [] label = "PER" -> "per"
      [] label = "ORG" -> "org"
      [] label = "LOC" -> "loc"
      [] OTHER -> label

\* max(scores, key=lambda x: x['score']): the first element of the largest score.
MaxByScore(scores) ==
    LET i == CHOOSE k \in DOMAIN scores :
                 /\ \A j \in DOMAIN scores : scores[j].score <= scores[k].score
                 /\ \A j \in 1..(k - 1) : scores[j].score < scores[k].score
    IN  scores[i]

TextDefaults(text) ==
    [extracted_text |-> text,
     language |-> "en",
     word_count |-> text.words,
     character_count |-> text.chars,
     sentiment |-> [score |-> 0, label |-> "neutral", confidence |-> 0],
     entities |-> <<>>,
     keywords |-> <<>>,
     topics |-> {},
     summary |-> "",
     embeddings |-> None]

\* A pipeline under way: the results so far, the exception that ended it (None
\* while it runs) and the collaborators it invoked.
Running(results) == [results |-> results, exc |-> None, called |-> <<>>]

Call(st, name) == [st EXCEPT !.called = Append(@, name)]

Raised(st, out) == [st EXCEPT !.exc = Some(out.exc)]

TextSentiment(m, text, env, st) ==
    IF st.exc # None \/ "sentiment" \notin m THEN st
    ELSE LET c == Call(st, "sentiment")
             out == env.sentiment
         IN  IF out.raises THEN Raised(c, out)
             ELSE IF Len(out.value) > 0
                  THEN LET best == MaxByScore(out.value)
                       IN  [c EXCEPT !.results.sentiment =
                               [score |-> best.score *
                                          (IF best.label = "POSITIVE" THEN 1 ELSE -1),
                                label |-> Lower(best.label),
                                confidence |-> best.score]]
                  ELSE c

TextEntities(m, text, env, st) ==
    IF st.exc # None \/ "ner" \notin m THEN st
    ELSE LET c == Call(st, "ner")
             out == env.ner
         IN  IF out.raises THEN Raised(c, out)
             ELSE [c EXCEPT !.results.entities =
                      [i \in DOMAIN out.value |->
                          [text |-> out.value[i].word,
                           type |-> Lower(out.value[i].entity_group),
                           confidence |-> out.value[i].score]]]

\* TextSummary, had a text of exactly 500 characters been summarized too.
TextSummary_FromMinChars(m, text, env, st) ==
    IF st.exc # None \/ "summarization" \notin m \/ ~(text.chars >= SummaryMinChars)
    THEN st
    ELSE LET c == Call(st, "summarization")
             out == env.summarization
         IN  IF out.raises THEN c
             ELSE IF out.value # <<>>
                  THEN [c EXCEPT !.results.summary = out.value[1].summary_text]
                  ELSE c

\* The only capability of process_text inside a try/except of its own.
TextSummary(m, text, env, st) ==
    IF st.exc # None \/ "summarization" \notin m \/ ~(text.chars > SummaryMinChars)
    THEN st
    ELSE LET c == Call(st, "summarization")
             out == env.summarization
         IN  IF out.raises THEN c
             ELSE IF out.value # <<>>
                  THEN [c EXCEPT !.results.summary = out.value[1].summary_text]
                  ELSE c

TextKeywords(m, text, env, st) ==
    IF st.exc # None \/ "nlp" \notin m THEN st
    ELSE LET c == Call(st, "nlp")
             out == env.nlp
         IN  IF out.raises THEN Raised(c, out)
             ELSE LET doc == out.value
                      long == {ch \in Range(doc.noun_chunks) : ch.len > 2}
                      chunks == SelectSeqBy(doc.noun_chunks, long)
                      keywords ==
                          [i \in DOMAIN chunks |->
                              [text |-> chunks[i].text, relevance |-> 80]]
                          \o [i \in DOMAIN doc.ents |->
                              [text |-> doc.ents[i].text, relevance |-> 90]]
                  IN  [c EXCEPT !.results.keywords = Take(keywords, KeywordLimit),
                                \* list(set(...)): the labels, in no specified order
                                !.results.topics =
                                    {doc.ents[i].label_ : i \in DOMAIN doc.ents}]

TextEmbeddings(m, text, env, st) ==
    IF st.exc # None \/ "embeddings" \notin m THEN st
    ELSE LET c == Call(st, "embeddings")
             out == env.embeddings
         IN  IF out.raises THEN Raised(c, out)
             ELSE [c EXCEPT !.results.embeddings = Some(out.value)]

\* The outer except logs and re-raises: the result keeps the exception.
process_text(m, text, env) ==
    LET s0 == Running(TextDefaults(text))
        s1 == TextSentiment(m, text, env, s0)
        s2 == TextEntities(m, text, env, s1)
        s3 == TextSummary(m, text, env, s2)
        s4 == TextKeywords(m, text, env, s3)
    IN  TextEmbeddings(m, text, env, s4)

-----------------------------------------------------------------------------
(* process_image *)

\* A decoded image is a sequence of pixels, each <<b, g, r>> as cv2.imdecode
\* gives them.  cv2.cvtColor(image, cv2.COLOR_BGR2RGB) swaps the outer channels.
BGR2RGB(pixels) == [i \in DOMAIN pixels |-> <<pixels[i][3], pixels[i][2], pixels[i][1]>>]

Whitespace == {" ", "\n"}

\* str.strip() on a string kept as a sequence of characters.
RECURSIVE LStrip(_)
LStrip(s) == IF s # <<>> /\ Head(s) \in Whitespace THEN LStrip(Tail(s)) ELSE s

RECURSIVE RStrip(_)
RStrip(s) ==
    IF s # <<>> /\ s[Len(s)] \in Whitespace THEN RStrip(SubSeq(s, 1, Len(s) - 1)) ELSE s

Strip(s) == RStrip(LStrip(s))

HexDigits == <<"0", "1", "2", "3", "4", "5", "6", "7", "8", "9", "a", "b", "c", "d", "e", "f">>

\* f"#{r:02x}{g:02x}{b:02x}" as a sequence of characters.
HexColor(rgb) ==
    <<"#">> \o <<HexDigits[(rgb[1] \div 16) + 1], HexDigits[(rgb[1] % 16) + 1]>>
            \o <<HexDigits[(rgb[2] \div 16) + 1], HexDigits[(rgb[2] % 16) + 1]>>
            \o <<HexDigits[(rgb[3] \div 16) + 1], HexDigits[(rgb[3] % 16) + 1]>>

\* The order of np.unique(pixels, axis=0): rows ascending, channel by channel.
RowLess(a, b) ==
    \/ a[1] < b[1]
    \/ a[1] = b[1] /\ a[2] < b[2]
    \/ a[1] = b[1] /\ a[2] = b[2] /\ a[3] < b[3]

RECURSIVE SortRows(_)
SortRows(S) ==
    IF S = {} THEN <<>>
    ELSE LET least == CHOOSE a \in S : \A b \in S \ {a} : RowLess(a, b)
         IN  <<least>> \o SortRows(S \ {least})

CountOf(pixels, row) == Cardinality({i \in DOMAIN pixels : pixels[i] = row})

\* np.argsort(counts): the indices by ascending count, equal counts in index
\* order (numpy sorts the short arrays met here by insertion).
RECURSIVE ArgSort(_, _)
ArgSort(counts, left) ==
    IF left = {} THEN <<>>
    ELSE LET first == CHOOSE i \in left :
                          \A j \in left \ {i} :
                              \/ counts[i] < counts[j]
                              \/ counts[i] = counts[j] /\ i < j
         IN  <<first>> \o ArgSort(counts, left \ {first})

Reverse(s) == [i \in DOMAIN s |-> s[Len(s) + 1 - i]]

\* s[-n:]
LastN(s, n) == SubSeq(s, Len(s) - Min(n, Len(s)) + 1, Len(s))

\* ColorAnalysis, had the five indices been left in ascending order of count.
ColorAnalysis_Ascending(rgb) ==
    LET total_pixels == Len(rgb)
        unique_colors == SortRows(Range(rgb))
        counts == [i \in DOMAIN unique_colors |-> CountOf(rgb, unique_colors[i])]
        top_indices == LastN(ArgSort(counts, DOMAIN counts), TopColors)
    IN  [k \in DOMAIN top_indices |->
            [hex |-> HexColor(unique_colors[top_indices[k]]),
             percentage |-> [num |-> counts[top_indices[k]] * 100, den |-> total_pixels]]]

ColorAnalysis(rgb) ==
    LET total_pixels == Len(rgb)
        unique_colors == SortRows(Range(rgb))
        counts == [i \in DOMAIN unique_colors |-> CountOf(rgb, unique_colors[i])]
        top_indices == Reverse(LastN(ArgSort(counts, DOMAIN counts), TopColors))
    IN  [k \in DOMAIN top_indices |->
            [hex |-> HexColor(unique_colors[top_indices[k]]),
             \* counts / total_pixels * 100
             percentage |-> [num |-> counts[top_indices[k]] * 100, den |-> total_pixels]]]

ChannelSum(rgb, c) ==
    LET RECURSIVE Sum(_)
        Sum(i) == IF i = 0 THEN 0 ELSE rgb[i][c] + Sum(i - 1)
    IN  Sum(Len(rgb))

\* SceneHeuristic, had the dark test come first.
SceneHeuristic_DarkFirst(rgb) ==
    LET n == Len(rgb)
        red == ChannelSum(rgb, 1)
        green == ChannelSum(rgb, 2)
        blue == ChannelSum(rgb, 3)
    IN  IF red + green + blue < DarkThreshold * 3 * n
        THEN [name |-> "indoor", confidence |-> 60]
        ELSE IF blue > BlueThreshold * n /\ green > GreenThreshold * n
             THEN [name |-> "outdoor", confidence |-> 70]
             ELSE [name |-> "mixed", confidence |-> 50]

\* avg_color = np.mean(image_rgb, axis=(0, 1)); the comparisons are multiplied
\* through by the pixel count.
SceneHeuristic(rgb) ==
    LET n == Len(rgb)
        red == ChannelSum(rgb, 1)
        green == ChannelSum(rgb, 2)
        blue == ChannelSum(rgb, 3)
    IN  IF blue > BlueThreshold * n /\ green > GreenThreshold * n
        THEN [name |-> "outdoor", confidence |-> 70]
        ELSE IF red + green + blue < DarkThreshold * 3 * n
             THEN [name |-> "indoor", confidence |-> 60]
             ELSE [name |-> "mixed", confidence |-> 50]

Decimal == <<"0", "1", "2", "3", "4", "5", "6", "7", "8", "9">>

\* str(n) for the small counts met here.
RECURSIVE Str(_)
Str(n) == IF n < 10 THEN <<Decimal[n + 1]>> ELSE Str(n \div 10) \o <<Decimal[(n % 10) + 1]>>

\* ", ".join(parts), each part and the result a sequence of string pieces.
RECURSIVE Join(_)
Join(parts) ==
    IF parts = <<>> THEN <<>>
    ELSE IF Len(parts) = 1 THEN parts[1]
         ELSE parts[1] \o <<", ">> \o Join(Tail(parts))

\* Description, had the text part been put before the faces part.
Description_TextFirst(results) ==
    LET description_parts ==
            (IF results.text # <<>> THEN << <<"contains text">> >> ELSE <<>>)
            \o (IF results.faces # <<>>
                THEN <<Str(Len(results.faces)) \o <<" face(s) detected">>>> ELSE <<>>)
            \o (IF results.scenes # <<>>
                THEN << <<results.scenes[1].name, " scene">> >> ELSE <<>>)
    IN  IF description_parts # <<>>
        THEN <<"Image with ">> \o Join(description_parts)
        ELSE <<"Image analysis completed">>

Description(results) ==
    LET description_parts ==
            (IF results.faces # <<>>
             THEN <<Str(Len(results.faces)) \o <<" face(s) detected">>>> ELSE <<>>)
            \o (IF results.text # <<>> THEN << <<"contains text">> >> ELSE <<>>)
            \o (IF results.scenes # <<>>
                THEN << <<results.scenes[1].name, " scene">> >> ELSE <<>>)
    IN  IF description_parts # <<>>
        THEN <<"Image with ">> \o Join(description_parts)
        ELSE <<"Image analysis completed">>

\* list(set(tags)): the tags, in no specified order.
Tags(results) ==
    (IF results.faces # <<>> THEN {"people"} ELSE {})
    \cup (IF results.text # <<>> THEN {"text"} ELSE {})
    \cup {results.scenes[i].name : i \in DOMAIN results.scenes}

ImageDefaults ==
    [objects |-> <<>>,
     faces |-> <<>>,
     text |-> <<>>,
     scenes |-> <<>>,
     colors |-> <<>>,
     landmarks |-> <<>>,
     safety_labels |-> <<>>,
     description |-> <<>>,
     tags |-> {}]

NameError(name) == Raise("NameError", name)

\* Decode, without the "if image is None" check.
Decode_NoneUnchecked(g, image_data) ==
    IF "np" \notin g THEN NameError("np")
    ELSE IF "cv2" \notin g THEN NameError("cv2")
    ELSE IF image_data.kind = "empty" THEN Raise("cv2.error", "imdecode")
    ELSE Return(image_data.pixels)

\* np.frombuffer and cv2.imdecode: the decoded pixels, or the exception.
Decode(g, image_data) ==
    IF "np" \notin g THEN NameError("np")
    ELSE IF "cv2" \notin g THEN NameError("cv2")
    ELSE IF image_data.kind = "empty" THEN Raise("cv2.error", "imdecode")
    ELSE IF image_data.kind # "image" THEN Raise("ValueError", "Invalid image data")
    ELSE Return(image_data.pixels)

ImageFaces(g, m, image, env, st) ==
    IF st.exc # None \/ "face_cascade" \notin m THEN st
    ELSE LET c == Call(st, "face_detection")
             out == env.faces
         IN  IF out.raises THEN Raised(c, out)
             ELSE [c EXCEPT !.results.faces =
                      [i \in DOMAIN out.value |->
                          [confidence |-> 80,
                           emotions |-> <<>>,
                           bounding_box |-> [x |-> out.value[i][1], y |-> out.value[i][2],
                                             width |-> out.value[i][3],
                                             height |-> out.value[i][4]]]]]

\* OCR runs inside a try/except of its own.
ImageOCR(g, m, image, env, st) ==
    IF st.exc # None \/ "pytesseract" \notin g THEN st
    ELSE LET c == Call(st, "ocr")
             out == env.ocr
         IN  IF out.raises THEN c
             ELSE [c EXCEPT !.results.text = Strip(out.value)]

ImageColors(g, m, image, env, st) ==
    IF st.exc # None THEN st
    ELSE [Call(st, "color_analysis") EXCEPT !.results.colors = ColorAnalysis(BGR2RGB(image))]

\* ImageScene, had the heuristic had no final else: only "outdoor" and
\* "indoor" are appended.
ImageScene_WithoutElse(g, m, image, env, st) ==
    IF st.exc # None THEN st
    ELSE LET scene == SceneHeuristic(BGR2RGB(image))
         IN  [Call(st, "scene_heuristic") EXCEPT
                 !.results.scenes = IF scene.name = "mixed" THEN @ ELSE Append(@, scene)]

ImageScene(g, m, image, env, st) ==
    IF st.exc # None THEN st
    ELSE [Call(st, "scene_heuristic") EXCEPT
             !.results.scenes = Append(@, SceneHeuristic(BGR2RGB(image)))]

ImageDescribe(st) ==
    IF st.exc # None THEN st
    ELSE [st EXCEPT !.results.description = Description(st.results),
                    !.results.tags = Tags(st.results)]

\* The outer except logs and re-raises: the result keeps the exception.
process_image(g, m, image_data, env) ==
    LET decoded == Decode(g, image_data)
    IN  IF decoded.raises THEN Raised(Running(ImageDefaults), decoded)
        ELSE LET image == decoded.value
                 s0 == Call(Running(ImageDefaults), "imdecode")
                 s1 == ImageFaces(g, m, image, env, s0)
                 s2 == ImageOCR(g, m, image, env, s1)
                 s3 == ImageColors(g, m, image, env, s2)
                 s4 == ImageScene(g, m, image, env, s3)
             IN  ImageDescribe(s4)

-----------------------------------------------------------------------------
(* The requests: the content posted and what the collaborators answer *)

Req == 1..NumReq

NoRequest == [kind |-> "none"]

Texts ==
    {[chars |-> 0, words |-> 0],
     [chars |-> 12, words |-> 3],
     [chars |-> SummaryMinChars, words |-> 80],
     [chars |-> SummaryMinChars + 1, words |-> 80]}

SentimentOutcomes ==
    {Raise("RuntimeError", "sentiment"),
     Return(<<>>),
     Return(<<[label |-> "negative", score |-> 10], [label |-> "neutral", score |-> 20],
              [label |-> "positive", score |-> 70]>>),
     Return(<<[label |-> "negative", score |-> 80], [label |-> "neutral", score |-> 15],
              [label |-> "positive", score |-> 5]>>),
     Return(<<[label |-> "NEGATIVE", score |-> 10], [label |-> "POSITIVE", score |-> 90]>>)}

NerOutcomes ==
    {Raise("RuntimeError", "ner"),
     Return(<<>>),
     Return(<<[word |-> "Paris", entity_group |-> "LOC", score |-> 99]>>)}

SummarizationOutcomes ==
    {Raise("RuntimeError", "summarization"),
     Return(<<>>),
     Return(<<[summary_text |-> "summary"]>>)}

SmallDoc ==
    [noun_chunks |-> <<[text |-> "it", len |-> 2], [text |-> "the cat", len |-> 7]>>,
     ents |-> <<[text |-> "Paris", label_ |-> "GPE"], [text |-> "Rome", label_ |-> "GPE"]>>]

LongDoc ==
    [noun_chunks |-> [i \in 1..(KeywordLimit + 1) |-> [text |-> "chunk", len |-> 5]],
     ents |-> <<[text |-> "Ada", label_ |-> "PERSON"]>>]

NlpOutcomes == {Raise("RuntimeError", "nlp"), Return(SmallDoc), Return(LongDoc)}

EmbeddingOutcomes == {Raise("RuntimeError", "embeddings"), Return(<<1, 2>>)}

IfLoaded(m, name, outcomes) == IF name \in m THEN outcomes ELSE {NotCalled}

TextRequests(m) ==
    {[kind |-> "text", text |-> t,
      env |-> [sentiment |-> a, ner |-> b, summarization |-> c, nlp |-> d, embeddings |-> e]] :
        t \in Texts,
        a \in IfLoaded(m, "sentiment", SentimentOutcomes),
        b \in IfLoaded(m, "ner", NerOutcomes),
        c \in IfLoaded(m, "summarization", SummarizationOutcomes),
        d \in IfLoaded(m, "nlp", NlpOutcomes),
        e \in IfLoaded(m, "embeddings", EmbeddingOutcomes)}

\* Pixels as cv2 decodes them, <<b, g, r>>: a sky blue, a near black, a warm orange.
Palette == {<<200, 150, 100>>, <<10, 10, 10>>, <<20, 120, 250>>}

RECURSIVE SeqsUpTo(_, _)
SeqsUpTo(S, n) ==
    IF n = 0 THEN {<<>>}
    ELSE LET shorter == SeqsUpTo(S, n - 1)
         IN  shorter \cup {Append(s, x) : s \in shorter, x \in S}

Pictures == SeqsUpTo(Palette, MaxPixels) \ {<<>>}

\* The bytes posted as an image: none, bytes no codec reads, or a picture.
ImageData ==
    {[kind |-> "empty", pixels |-> <<>>], [kind |-> "garbage", pixels |-> <<>>]}
    \cup {[kind |-> "image", pixels |-> p] : p \in Pictures}

FaceOutcomes ==
    {Raise("cv2.error", "detectMultiScale")}
    \cup {Return([i \in 1..k |-> <<i, i, 30, 30>>]) : k \in 0..MaxFaces}

OcrOutcomes ==
    {Raise("TesseractError", "ocr"), Return(<<>>), Return(<<" ", "\n">>),
     Return(<<" ", "h", "i", "\n">>)}

ImageEnvs(g, m) ==
    {[faces |-> f, ocr |-> o] :
        f \in IfLoaded(m, "face_cascade", FaceOutcomes),
        o \in (IF "pytesseract" \in g THEN OcrOutcomes ELSE {NotCalled})}

ImageRequests(g, m) ==
    {[kind |-> "image", data |-> d, env |-> e] : d \in ImageData, e \in ImageEnvs(g, m)}

\* What recognize_google answers on a recording: sr.UnknownValueError when it
\* understands no speech, sr.RequestError when the service cannot be reached,
\* or the text (in a tuple).
SpeechOutcomes ==
    {Raise("UnknownValueError", ""), Raise("RequestError", "recognition connection failed"),
     Return(<<"hello">>)}

AudioRequests(m) ==
    {[kind |-> "audio", speech |-> s] : s \in IfLoaded(m, "speech_recognizer", SpeechOutcomes)}

\* What librosa measures: [volume, pitch (None: no clear pitch), tempo].
FeatureOutcomes ==
    {Raise("LibrosaError", "load"),
     Return([volume |-> 10, pitch |-> None, tempo |-> 12000]),
     Return([volume |-> 25, pitch |-> Some(44000), tempo |-> 9000])}

\* The footage of a clip: the picture (as <<r, g, b>> pixels) shown during each
\* second, repeating.
Footage ==
    {<< <<<<100, 150, 200>>>> >>,
     << <<<<10, 10, 10>>>>, <<<<250, 120, 20>>, <<100, 150, 200>>>> >>}

Clips ==
    {[corrupt |-> TRUE, duration2 |-> 0, has_audio |-> FALSE, shots |-> <<>>,
      w |-> 0, h |-> 0, fps |-> 0]}
    \cup {[corrupt |-> FALSE, duration2 |-> d, has_audio |-> a, shots |-> f,
           w |-> 64, h |-> 48, fps |-> 25] :
             d \in 0..MaxDuration2, a \in BOOLEAN, f \in Footage}

\* What the face detector and the OCR engine answer on the frames of a clip.
FrameEnvs(g, m) ==
    {e \in ImageEnvs(g, m) :
        /\ ~e.faces.raises /\ ~e.ocr.raises
        /\ Len(e.faces.value) \in {0, MaxFaces}
        /\ Len(e.ocr.value) \in {0, 4}}

\* speech: what recognize_google answers on the audio track of the clip.
VideoRequests(g, m) ==
    UNION {{[kind |-> "video", clip |-> c, env |-> e, speech |-> s] :
                e \in FrameEnvs(g, m),
                s \in (IF c.has_audio THEN IfLoaded(m, "speech_recognizer", SpeechOutcomes)
                       ELSE {NotCalled})} : c \in Clips}

Requests(g, m) ==
    TextRequests(m) \cup ImageRequests(g, m) \cup AudioRequests(m) \cup VideoRequests(g, m)

-----------------------------------------------------------------------------
(* The scratch directory, the envelope and the locals *)

\* A file of config.temp_dir: <<prefix, timestamp, suffix>>.
Paths == {"temp_audio", "temp_video"} \X (0..MaxClock) \X {"wav", "mp4"}

\* Path(temp_dir) / f"temp_audio_{datetime.now().timestamp()}.wav"
AudioTempPath(t) == <<"temp_audio", t, "wav">>

\* Path(temp_dir) / f"temp_video_{datetime.now().timestamp()}.mp4"
VideoTempPath(t) == <<"temp_video", t, "mp4">>

\* temp_path.with_suffix('.wav')
WithSuffix(path, suffix) == <<path[1], path[2], suffix>>

Exists(path) == disk[path] # 0

ProcessingResponse(success, results, error) ==
    [success |-> success, results |-> results, error |-> error]

\* Envelope, had the except branch been copied from the try branch with
\* success left True.
Envelope_SuccessOnError(out) ==
    IF out.raises
    THEN ProcessingResponse(TRUE, None, Some(out.exc.msg))
    ELSE ProcessingResponse(TRUE, Some(out.value), None)

\* The try/except of every endpoint around the awaited pipeline: str(e) of an
\* Exception goes to error, a result to results.
Envelope(out) ==
    IF out.raises
    THEN ProcessingResponse(FALSE, None, Some(out.exc.msg))
    ELSE ProcessingResponse(TRUE, Some(out.value), None)

AudioDefaults ==
    [transcription |-> [text |-> "", confidence |-> 0, language |-> "en", speakers |-> <<>>],
     audio_features |-> [volume |-> 0, pitch |-> 0, tempo |-> 0, music_genre |-> "",
                         instruments |-> <<>>],
     emotions |-> <<>>,
     noise_level |-> 0,
     silence_segments |-> <<>>]

VideoDefaults ==
    [scenes |-> <<>>,
     faces |-> <<>>,
     audio |-> None,
     motion |-> [intensity |-> 0, direction |-> "", camera_movement |-> "static"],
     quality |-> [resolution |-> <<>>, frame_rate |-> 0, bitrate |-> 0, stability |-> 0]]

\* The locals of a process_audio invocation; pc "idle" when there is none.
NoAudio == [pc |-> "idle", temp_path |-> None, results |-> AudioDefaults, exc |-> None]

\* The locals of a process_video invocation.
NoVideo ==
    [temp_path |-> None, audio_path |-> None, results |-> VideoDefaults, exc |-> None,
     samples |-> 0, i |-> 0, scenes |-> <<>>]

\* An endpoint ends: an Exception or a result becomes the response; a
\* CancelledError is no Exception and leaves the endpoint without a response.
EndpointEnds(r, out) ==
    IF out.raises /\ ~IsException(out.exc)
    THEN /\ pc' = [pc EXCEPT ![r] = "cancelled"]
         /\ UNCHANGED response
    ELSE /\ pc' = [pc EXCEPT ![r] = "done"]
         /\ response' = [response EXCEPT ![r] = Some(Envelope(out))]

Log(r, event) == calls' = [calls EXCEPT ![r] = Append(@, event)]

LogAll(r, events) == calls' = [calls EXCEPT ![r] = @ \o events]

-----------------------------------------------------------------------------
(* The text and image endpoints *)

process_text_endpoint(r) ==
    /\ pc[r] = "start"
    /\ req[r].kind = "text"
    /\ LET st == process_text(models, req[r].text, req[r].env)
           out == IF st.exc # None THEN [raises |-> TRUE, exc |-> st.exc[1]]
                  ELSE Return(st.results)
       IN  /\ EndpointEnds(r, out)
           /\ LogAll(r, st.called)
    /\ UNCHANGED <<globals, models, now, disk, req, loc, aloc>>

process_image_endpoint(r) ==
    /\ pc[r] = "start"
    /\ req[r].kind = "image"
    /\ \/ \* await file.read() raises
          /\ EndpointEnds(r, Raise("OSError", "read"))
          /\ Log(r, "file.read_failed")
       \/ LET st == process_image(globals, models, req[r].data, req[r].env)
              out == IF st.exc # None THEN [raises |-> TRUE, exc |-> st.exc[1]]
                     ELSE Return(st.results)
          IN  /\ EndpointEnds(r, out)
              /\ LogAll(r, st.called)
    /\ UNCHANGED <<globals, models, now, disk, req, loc, aloc>>

-----------------------------------------------------------------------------
(* process_audio, step by step *)

\* AudioExit, had process_video gone on to the frames without deleting the
\* extracted audio file.
AudioExit_SkipsUnlink(r, out) ==
    IF req[r].kind = "audio"
    THEN /\ EndpointEnds(r, out)
         /\ UNCHANGED loc
    ELSE /\ UNCHANGED response
         /\ IF out.raises
            THEN /\ loc' = [loc EXCEPT ![r].exc = Some(out.exc)]
                 /\ pc' = [pc EXCEPT ![r] = "v_finally"]
            ELSE /\ loc' = [loc EXCEPT ![r].results.audio = Some(out.value)]
                 /\ pc' = [pc EXCEPT ![r] = "v_sample"]

\* process_audio hands its result, or the exception it re-raises, to the
\* coroutine awaiting it: the audio endpoint, or process_video, where the
\* exception lands inside the try block of the video temp file.
AudioExit(r, out) ==
    IF req[r].kind = "audio"
    THEN /\ EndpointEnds(r, out)
         /\ UNCHANGED loc
    ELSE /\ UNCHANGED response
         /\ IF out.raises
            THEN /\ loc' = [loc EXCEPT ![r].exc = Some(out.exc)]
                 /\ pc' = [pc EXCEPT ![r] = "v_finally"]
            ELSE /\ loc' = [loc EXCEPT ![r].results.audio = Some(out.value)]
                 /\ pc' = [pc EXCEPT ![r] = "v_unlink_audio"]

process_audio_endpoint(r) ==
    /\ pc[r] = "start"
    /\ req[r].kind = "audio"
    /\ \/ \* await file.read() raises
          /\ EndpointEnds(r, Raise("OSError", "read"))
          /\ Log(r, "file.read_failed")
          /\ UNCHANGED aloc
       \/ /\ pc' = [pc EXCEPT ![r] = "audio"]
          /\ aloc' = [aloc EXCEPT ![r] = [NoAudio EXCEPT !.pc = "write"]]
          /\ UNCHANGED <<response, calls>>
    /\ UNCHANGED <<globals, models, now, disk, req, loc>>

\* PA_Write, had a failed open or write been swallowed.
PA_Write_IgnoresFailure(r) ==
    /\ aloc[r].pc = "write"
    /\ \E t \in now..MaxClock :
        LET temp_path == AudioTempPath(t)
        IN  /\ now' = t
            /\ aloc' = [aloc EXCEPT ![r].pc = "features", ![r].temp_path = Some(temp_path)]
            /\ \/ /\ disk' = [disk EXCEPT ![temp_path] = r]
                  /\ Log(r, "write_audio_temp")
               \/ /\ Log(r, "open_audio_temp_failed")
                  /\ UNCHANGED disk
               \/ /\ disk' = [disk EXCEPT ![temp_path] = r]
                  /\ Log(r, "write_audio_temp_failed")
    /\ UNCHANGED <<globals, models, req, pc, loc, response>>

\* temp_path from the clock, then open(temp_path, 'wb') and f.write(audio_data),
\* before the try block whose finally removes the file.
PA_Write(r) ==
    /\ aloc[r].pc = "write"
    /\ \E t \in now..MaxClock :
        LET temp_path == AudioTempPath(t)
        IN  /\ now' = t
            /\ \/ /\ disk' = [disk EXCEPT ![temp_path] = r]
                  /\ aloc' = [aloc EXCEPT ![r].pc = "features",
                                          ![r].temp_path = Some(temp_path)]
                  /\ Log(r, "write_audio_temp")
                  /\ UNCHANGED <<pc, loc, response>>
               \/ \* open raises: no file
                  /\ aloc' = [aloc EXCEPT ![r] = NoAudio]
                  /\ AudioExit(r, Raise("OSError", "open"))
                  /\ Log(r, "open_audio_temp_failed")
                  /\ UNCHANGED disk
               \/ \* f.write raises: the file open created stays
                  /\ disk' = [disk EXCEPT ![temp_path] = r]
                  /\ aloc' = [aloc EXCEPT ![r] = NoAudio]
                  /\ AudioExit(r, Raise("OSError", "write"))
                  /\ Log(r, "write_audio_temp_failed")
    /\ UNCHANGED <<globals, models, req>>

AudioFeatures(results, f) ==
    [results EXCEPT !.audio_features.volume = f.volume,
                    !.audio_features.pitch = IF f.pitch # None THEN f.pitch[1] ELSE @,
                    !.audio_features.tempo = f.tempo]

\* if 'librosa' in globals(): load, piptrack, beat_track
PA_Features(r) ==
    /\ aloc[r].pc = "features"
    /\ IF "librosa" \notin globals
       THEN /\ aloc' = [aloc EXCEPT ![r].pc = "speech"]
            /\ UNCHANGED calls
       ELSE /\ \E out \in FeatureOutcomes :
                /\ out.raises \/ Exists(aloc[r].temp_path[1])
                /\ IF out.raises
                   THEN /\ aloc' = [aloc EXCEPT ![r].pc = "finally",
                                                ![r].exc = Some(out.exc)]
                        /\ Log(r, "librosa_failed")
                   ELSE /\ aloc' = [aloc EXCEPT ![r].pc = "speech",
                                                ![r].results = AudioFeatures(@, out.value)]
                        /\ Log(r, "librosa")
    /\ UNCHANGED <<globals, models, now, disk, req, pc, loc, response>>

\* "y, sr = librosa.load(...)" makes sr a local of process_audio: where the
\* speech block reads sr.AudioFile, sr is the sample rate librosa returned, or
\* unbound when librosa was not imported.  It is never the speech_recognition
\* module.
SrLocal(g) == IF "librosa" \in g THEN "sample rate" ELSE "unbound"

\* if 'speech_recognizer' in self.models: with sr.AudioFile(...) as source: ...
\* heard is what recognize_google answers, were it reached.
SpeechRecognition(g, results, heard) ==
    IF SrLocal(g) = "unbound"
    THEN Raise("UnboundLocalError", "sr")
    ELSE IF SrLocal(g) = "sample rate"
         THEN Raise("AttributeError", "AudioFile")
         ELSE IF ~heard.raises
              THEN Return([results EXCEPT !.transcription.text = heard.value[1],
                                          !.transcription.confidence = 80])
              ELSE IF heard.exc.type = "UnknownValueError"
                   THEN Return([results EXCEPT
                                   !.transcription.text = "Could not understand audio"])
                   ELSE IF heard.exc.type = "RequestError"
                        THEN Return(results)
                        ELSE heard

PA_Speech(r) ==
    /\ aloc[r].pc = "speech"
    /\ IF "speech_recognizer" \notin models
       THEN /\ aloc' = [aloc EXCEPT ![r].pc = "finally"]
            /\ UNCHANGED calls
       ELSE LET out == SpeechRecognition(globals, aloc[r].results, req[r].speech)
            IN  /\ aloc' = [aloc EXCEPT ![r].pc = "finally",
                                        ![r].exc = IF out.raises THEN Some(out.exc) ELSE @,
                                        ![r].results = IF out.raises THEN @ ELSE out.value]
                /\ Log(r, IF out.raises THEN "sr.AudioFile_failed" ELSE "sr.AudioFile")
    /\ UNCHANGED <<globals, models, now, disk, req, pc, loc, response>>

\* finally: if temp_path.exists(): temp_path.unlink(); then return results, or
\* the outer except logs and re-raises.
PA_Finally(r) ==
    /\ aloc[r].pc = "finally"
    /\ LET temp_path == aloc[r].temp_path[1]
           out == IF aloc[r].exc # None THEN [raises |-> TRUE, exc |-> aloc[r].exc[1]]
                  ELSE Return(aloc[r].results)
       IN  /\ disk' = [disk EXCEPT ![temp_path] = 0]
           /\ IF Exists(temp_path) THEN Log(r, "unlink_audio_temp") ELSE UNCHANGED calls
           /\ aloc' = [aloc EXCEPT ![r] = NoAudio]
           /\ AudioExit(r, out)
    /\ UNCHANGED <<globals, models, now, req>>

-----------------------------------------------------------------------------
(* process_video, step by step *)

Frac(n, d) == [num |-> n, den |-> d]

FracAdd(a, b) == Frac(a.num * b.den + b.num * a.den, a.den * b.den)

FracLeq(a, b) == a.num * b.den <= b.num * a.den

FracLess(a, b) == a.num * b.den < b.num * a.den

\* clip.duration, kept in half seconds
Duration(clip) == Frac(clip.duration2, 2)

\* SampleCount, had the duration been rounded up.
SampleCount_RoundsUp(clip) == Min(MaxSamples, (clip.duration2 + 1) \div 2)

\* min(10, int(duration))
SampleCount(clip) == Min(MaxSamples, clip.duration2 \div 2)

\* SampleTime, had the samples been spaced duration / n apart, the end left out.
SampleTime_EndpointExcluded(clip, n, i) == Frac(i * clip.duration2, 2 * n)

\* np.linspace(0, duration, n)[i], i from 0: a lone sample is 0, n samples are
\* spaced duration / (n - 1) apart.
SampleTime(clip, n, i) ==
    IF n = 1 THEN Frac(0, 1) ELSE Frac(i * clip.duration2, 2 * (n - 1))

\* clip.get_frame(t): the picture shown during the second t falls in.
GetFrame(clip, t) == clip.shots[((t.num \div t.den) % Len(clip.shots)) + 1]

\* Image.fromarray(frame) saved as JPEG: the bytes cv2 decodes to the frame's
\* pixels, as <<b, g, r>>.  JPEG coding is lossy: a decoded level may differ
\* from the frame's by a few units.  The footage used here is made of flat
\* colours whose levels lie far from every threshold of the scene heuristic,
\* so the loss is not represented.
FrameData(frame) ==
    [kind |-> "image", pixels |-> [i \in DOMAIN frame |-> <<frame[i][3], frame[i][2], frame[i][1]>>]]

\* f"{clip.w}x{clip.h}"
Resolution(clip) == Str(clip.w) \o <<"x">> \o Str(clip.h)

\* Segment, had the end been a whole duration after the start.
Segment_EndAtDuration(clip, n, i, frame_analysis) ==
    LET t == SampleTime(clip, n, i)
    IN  [start |-> t,
         end |-> FracAdd(t, Duration(clip)),
         description |-> frame_analysis.description,
         keyframes |-> <<>>,
         objects |-> frame_analysis.objects]

\* The scene appended for sample i of n, from the analysis of its frame.
Segment(clip, n, i, frame_analysis) ==
    LET t == SampleTime(clip, n, i)
    IN  [start |-> t,
         \* t + duration / len(sample_times)
         end |-> FracAdd(t, Frac(Duration(clip).num, Duration(clip).den * n)),
         description |-> frame_analysis.description,
         keyframes |-> <<>>,
         objects |-> frame_analysis.objects]

\* AddScene, had each segment been put at the front.
AddScene_AtFront(scenes, segment) == <<segment>> \o scenes

\* scenes.append(...)
AddScene(scenes, segment) == Append(scenes, segment)

VideoRaises(r, exc) ==
    /\ loc' = [loc EXCEPT ![r].exc = Some(exc)]
    /\ pc' = [pc EXCEPT ![r] = "v_finally"]

process_video_endpoint(r) ==
    /\ pc[r] = "start"
    /\ req[r].kind = "video"
    /\ \/ \* await file.read() raises
          /\ EndpointEnds(r, Raise("OSError", "read"))
          /\ Log(r, "file.read_failed")
       \/ /\ pc' = [pc EXCEPT ![r] = "v_write"]
          /\ UNCHANGED <<response, calls>>
    /\ UNCHANGED <<globals, models, now, disk, req, loc, aloc>>

\* temp_path from the clock, then open(temp_path, 'wb') and f.write(video_data),
\* before the try block whose finally removes the file.
PV_Write(r) ==
    /\ pc[r] = "v_write"
    /\ \E t \in now..MaxClock :
        LET temp_path == VideoTempPath(t)
        IN  /\ now' = t
            /\ \/ /\ disk' = [disk EXCEPT ![temp_path] = r]
                  /\ loc' = [loc EXCEPT ![r].temp_path = Some(temp_path)]
                  /\ pc' = [pc EXCEPT ![r] = "v_open"]
                  /\ Log(r, "write_video_temp")
                  /\ UNCHANGED response
               \/ \* open raises: no file
                  /\ EndpointEnds(r, Raise("OSError", "open"))
                  /\ Log(r, "open_video_temp_failed")
                  /\ UNCHANGED <<disk, loc>>
               \/ \* f.write raises: the file open created stays
                  /\ disk' = [disk EXCEPT ![temp_path] = r]
                  /\ EndpointEnds(r, Raise("OSError", "write"))
                  /\ Log(r, "write_video_temp_failed")
                  /\ UNCHANGED loc
    /\ UNCHANGED <<globals, models, req, aloc>>

\* if 'VideoFileClip' in globals(): clip = VideoFileClip(str(temp_path)), then
\* the resolution and the frame rate.
PV_Open(r) ==
    /\ pc[r] = "v_open"
    /\ IF "VideoFileClip" \notin globals
       THEN /\ pc' = [pc EXCEPT ![r] = "v_finally"]
            /\ UNCHANGED <<loc, calls>>
       ELSE IF req[r].clip.corrupt \/ ~Exists(loc[r].temp_path[1])
            THEN /\ VideoRaises(r, [type |-> "OSError", msg |-> "VideoFileClip"])
                 /\ Log(r, "VideoFileClip_failed")
            ELSE /\ loc' = [loc EXCEPT
                              ![r].results.quality.resolution = Resolution(req[r].clip),
                              ![r].results.quality.frame_rate = req[r].clip.fps]
                 /\ pc' = [pc EXCEPT ![r] = "v_audio"]
                 /\ Log(r, "VideoFileClip")
    /\ UNCHANGED <<globals, models, now, disk, req, aloc, response>>

\* if clip.audio is not None: clip.audio.write_audiofile(str(audio_path), ...)
PV_ExtractAudio(r) ==
    /\ pc[r] = "v_audio"
    /\ IF ~req[r].clip.has_audio
       THEN /\ pc' = [pc EXCEPT ![r] = "v_sample"]
            /\ UNCHANGED <<loc, disk, calls>>
       ELSE LET audio_path == WithSuffix(loc[r].temp_path[1], "wav")
            IN  \/ /\ disk' = [disk EXCEPT ![audio_path] = r]
                   /\ loc' = [loc EXCEPT ![r].audio_path = Some(audio_path)]
                   /\ pc' = [pc EXCEPT ![r] = "v_read"]
                   /\ Log(r, "write_audiofile")
                \/ \* write_audiofile raises before it creates the file
                   /\ VideoRaises(r, [type |-> "OSError", msg |-> "write_audiofile"])
                   /\ Log(r, "write_audiofile_failed")
                   /\ UNCHANGED disk
                \/ \* write_audiofile raises with the file partly written
                   /\ disk' = [disk EXCEPT ![audio_path] = r]
                   /\ VideoRaises(r, [type |-> "OSError", msg |-> "write_audiofile"])
                   /\ Log(r, "write_audiofile_failed")
    /\ UNCHANGED <<globals, models, now, req, aloc, response>>

\* with open(audio_path, 'rb') as f: audio_data = f.read(); then the call
\* self.process_audio(audio_data), awaited.
PV_ReadAudio(r) ==
    /\ pc[r] = "v_read"
    /\ \/ /\ Exists(loc[r].audio_path[1])
          /\ pc' = [pc EXCEPT ![r] = "v_await_audio"]
          /\ aloc' = [aloc EXCEPT ![r] = [NoAudio EXCEPT !.pc = "write"]]
          /\ Log(r, "read_audio")
          /\ UNCHANGED loc
       \/ /\ VideoRaises(r, [type |-> "OSError", msg |-> "read"])
          /\ Log(r, "read_audio_failed")
          /\ UNCHANGED aloc
    /\ UNCHANGED <<globals, models, now, disk, req, response>>

\* audio_path.unlink(), reached only when process_audio returned
PV_UnlinkAudio(r) ==
    /\ pc[r] = "v_unlink_audio"
    /\ LET audio_path == loc[r].audio_path[1]
       IN  IF Exists(audio_path)
           THEN /\ disk' = [disk EXCEPT ![audio_path] = 0]
                /\ pc' = [pc EXCEPT ![r] = "v_sample"]
                /\ Log(r, "unlink_audio")
                /\ UNCHANGED loc
           ELSE /\ VideoRaises(r, [type |-> "FileNotFoundError", msg |-> "unlink"])
                /\ UNCHANGED <<disk, calls>>
    /\ UNCHANGED <<globals, models, now, req, aloc, response>>

\* duration = clip.duration; sample_times = np.linspace(...); scenes = []
PV_Sample(r) ==
    /\ pc[r] = "v_sample"
    /\ loc' = [loc EXCEPT ![r].samples = SampleCount(req[r].clip),
                          ![r].i = 0,
                          ![r].scenes = <<>>]
    /\ pc' = [pc EXCEPT ![r] = "v_frame"]
    /\ UNCHANGED <<globals, models, now, disk, req, aloc, response, calls>>

\* One turn of "for i, t in enumerate(sample_times)": get_frame, the JPEG
\* bytes, the awaited process_image and scenes.append.  Nothing catches what
\* they raise before the finally of the video temp file.
PV_Frame(r) ==
    /\ pc[r] = "v_frame"
    /\ loc[r].i < loc[r].samples
    /\ LET clip == req[r].clip
           t == SampleTime(clip, loc[r].samples, loc[r].i)
           frame_data == FrameData(GetFrame(clip, t))
       IN  \/ /\ VideoRaises(r, [type |-> "OSError", msg |-> "get_frame"])
              /\ Log(r, "get_frame_failed")
           \/ /\ VideoRaises(r, [type |-> "OSError", msg |-> "save"])
              /\ LogAll(r, <<"get_frame", "save_failed">>)
           \/ \E env \in {req[r].env, [req[r].env EXCEPT !.faces = Raise("cv2.error", "detectMultiScale")]} :
                LET st == process_image(globals, models, frame_data, env)
                IN  IF st.exc # None
                    THEN /\ VideoRaises(r, st.exc[1])
                         /\ LogAll(r, <<"get_frame", "save", "process_image_failed">>)
                    ELSE /\ loc' = [loc EXCEPT
                                      ![r].scenes =
                                          AddScene(@, Segment(clip, loc[r].samples,
                                                              loc[r].i, st.results)),
                                      ![r].i = @ + 1]
                         /\ UNCHANGED pc
                         /\ LogAll(r, <<"get_frame", "save", "process_image">>)
    /\ UNCHANGED <<globals, models, now, disk, req, aloc, response>>

\* After the loop: results['scenes'] = scenes; clip.close()
PV_Close(r) ==
    /\ pc[r] = "v_frame"
    /\ loc[r].i = loc[r].samples
    /\ loc' = [loc EXCEPT ![r].results.scenes = loc[r].scenes]
    /\ pc' = [pc EXCEPT ![r] = "v_finally"]
    /\ Log(r, "clip.close")
    /\ UNCHANGED <<globals, models, now, disk, req, aloc, response>>

\* PV_Finally, had the finally block not removed the file.
PV_Finally_KeepsFile(r) ==
    /\ pc[r] = "v_finally"
    /\ LET out == IF loc[r].exc # None THEN [raises |-> TRUE, exc |-> loc[r].exc[1]]
                  ELSE Return(loc[r].results)
       IN  EndpointEnds(r, out)
    /\ UNCHANGED <<globals, models, now, disk, req, loc, aloc, calls>>

\* finally: if temp_path.exists(): temp_path.unlink(); then return results, or
\* the outer except logs and re-raises, into the endpoint.
PV_Finally(r) ==
    /\ pc[r] = "v_finally"
    /\ LET temp_path == loc[r].temp_path[1]
           out == IF loc[r].exc # None THEN [raises |-> TRUE, exc |-> loc[r].exc[1]]
                  ELSE Return(loc[r].results)
       IN  /\ disk' = [disk EXCEPT ![temp_path] = 0]
           /\ IF Exists(temp_path) THEN Log(r, "unlink_video_temp") ELSE UNCHANGED calls
           /\ EndpointEnds(r, out)
    /\ UNCHANGED <<globals, models, now, req, loc, aloc>>

-----------------------------------------------------------------------------
(* Cancellation *)

\* The request's task is cancelled while its coroutine waits at an await:
\* CancelledError is raised there and unwinds through the finally blocks.
\* At "await file.read()" and at the await of a pipeline that has not started,
\* nothing was acquired.  In process_video the awaits are those of
\* process_audio and of process_image.
Cancel(r) ==
    /\ \/ /\ pc[r] = "start"
          /\ req[r].kind \in {"image", "audio", "video"}
          /\ pc' = [pc EXCEPT ![r] = "cancelled"]
          /\ UNCHANGED <<loc, aloc>>
       \/ /\ pc[r] = "audio"
          /\ aloc[r].pc = "write"
          /\ pc' = [pc EXCEPT ![r] = "cancelled"]
          /\ aloc' = [aloc EXCEPT ![r] = NoAudio]
          /\ UNCHANGED loc
       \/ /\ pc[r] = "v_write"
          /\ pc' = [pc EXCEPT ![r] = "cancelled"]
          /\ UNCHANGED <<loc, aloc>>
       \/ /\ pc[r] = "v_await_audio"
          /\ aloc[r].pc = "write"
          /\ VideoRaises(r, CancelledError)
          /\ aloc' = [aloc EXCEPT ![r] = NoAudio]
       \/ /\ pc[r] = "v_frame"
          /\ loc[r].i < loc[r].samples
          /\ VideoRaises(r, CancelledError)
          /\ UNCHANGED aloc
    /\ Log(r, "cancel")
    /\ UNCHANGED <<globals, models, now, disk, req, response>>

-----------------------------------------------------------------------------
(* The specifications *)

NoFiles == [p \in Paths |-> 0]

Configured ==
    \E n \in 0..Len(ImportOrder), failAt \in 0..Len(ModelOrder) :
        /\ globals = ImportedNames(n)
        /\ models = _initialize_models(globals, failAt)

Fresh ==
    /\ now = 0
    /\ disk = NoFiles
    /\ pc = [r \in Req |-> IF req[r] = NoRequest THEN "absent" ELSE "start"]
    /\ loc = [r \in Req |-> NoVideo]
    /\ aloc = [r \in Req |-> NoAudio]
    /\ response = [r \in Req |-> None]
    /\ calls = [r \in Req |-> <<>>]

\* One request arrives at a processor built with whatever could be imported
\* and loaded.
Init ==
    /\ Configured
    /\ \E q \in Requests(globals, models) :
           req = [r \in Req |-> IF r = 1 THEN q ELSE NoRequest]
    /\ Fresh

Step(r) ==
    \/ process_text_endpoint(r)
    \/ process_image_endpoint(r)
    \/ process_audio_endpoint(r)
    \/ process_video_endpoint(r)
    \/ PA_Write(r)
    \/ PA_Features(r)
    \/ PA_Speech(r)
    \/ PA_Finally(r)
    \/ PV_Write(r)
    \/ PV_Open(r)
    \/ PV_ExtractAudio(r)
    \/ PV_ReadAudio(r)
    \/ PV_UnlinkAudio(r)
    \/ PV_Sample(r)
    \/ PV_Frame(r)
    \/ PV_Close(r)
    \/ PV_Finally(r)
    \/ Cancel(r)

Next == \E r \in Req : Step(r)

Spec == Init /\ [][Next]_vars

\* Two requests arrive together at a processor that imported every library;
\* each is an audio or a short video request, or one of two plain text and
\* image requests.
ConcurrentRequests(g, m) ==
    {q \in Requests(g, m) :
        \/ q.kind = "audio"
        \/ /\ q.kind = "video"
           /\ ~q.clip.corrupt
           /\ q.clip.duration2 = 2
           /\ Len(q.clip.shots) = 1
           /\ q.env.faces.value = <<>> /\ q.env.ocr.value = <<>>
        \/ /\ q.kind = "text"
           /\ q.text.chars = 0
           /\ \A c \in DOMAIN q.env : q.env[c] = NotCalled
        \/ /\ q.kind = "image"
           /\ q.data.kind = "garbage"
           /\ q.env.faces = NotCalled /\ q.env.ocr = NotCalled}

InitConc ==
    /\ \E failAt \in 0..Len(ModelOrder) :
           /\ globals = ImportedNames(Len(ImportOrder))
           /\ models = _initialize_models(globals, failAt)
    /\ \E a, b \in ConcurrentRequests(globals, models) :
           req = [r \in Req |-> IF r = 1 THEN a ELSE IF r = 2 THEN b ELSE NoRequest]
    /\ Fresh

SpecConc == InitConc /\ [][Next]_vars

\* Pixels as cv2 decodes them, <<b, g, r>>, at and around the thresholds of the
\* scene heuristic: blue and green just above theirs on a dark pixel, green at
\* its threshold, a grey at the dark threshold and one just below, blue at its
\* threshold on a bright pixel, and a sky blue.
Swatches ==
    << <<151, 101, 0>>, <<151, 100, 0>>, <<100, 100, 100>>, <<100, 100, 99>>,
       <<150, 255, 255>>, <<200, 150, 100>> >>

\* The pictures holding up to MaxCopies pixels of each of the first k swatches
RECURSIVE Mosaics(_)
Mosaics(k) ==
    IF k = 0 THEN {<<>>}
    ELSE {p \o [i \in 1..c |-> Swatches[k]] : p \in Mosaics(k - 1), c \in 0..MaxCopies}

\* One image request, of a picture of many colours, arrives at a processor
\* that imported every library; the face detector and the OCR engine find
\* nothing.
InitImage ==
    /\ \E failAt \in 0..Len(ModelOrder) :
           /\ globals = ImportedNames(Len(ImportOrder))
           /\ models = _initialize_models(globals, failAt)
    /\ \E p \in Mosaics(Len(Swatches)) \ {<<>>} :
           req = [r \in Req |->
                     IF r = 1
                     THEN [kind |-> "image",
                           data |-> [kind |-> "image", pixels |-> p],
                           env |-> [faces |-> Return(<<>>), ocr |-> Return(<<>>)]]
                     ELSE NoRequest]
    /\ Fresh

NextImage == \E r \in Req : process_image_endpoint(r)

SpecImage == InitImage /\ [][NextImage]_vars

-----------------------------------------------------------------------------
(* What the properties read *)

Finished(r, kind) == pc[r] = "done" /\ req[r].kind = kind

Succeeded(r) == response[r] # None /\ response[r][1].success

Results(r) == response[r][1].results[1]

Events(r) == Range(calls[r])

\* The files of the scratch directory that request r wrote
FilesOf(r) == {p \in Paths : disk[p] = r}

\* The temp paths the live invocations of request r hold
Held(r) ==
    IF pc[r] \in {"absent", "start", "done", "cancelled"} THEN {}
    ELSE Range(aloc[r].temp_path) \cup Range(loc[r].temp_path) \cup Range(loc[r].audio_path)

Analyzers == {"face_detection", "ocr", "color_analysis", "scene_heuristic"}

AudioBranchFailures ==
    {"write_audiofile_failed", "read_audio_failed", "open_audio_temp_failed",
     "write_audio_temp_failed", "librosa_failed", "sr.AudioFile_failed"}

FrameFailures == {"get_frame_failed", "save_failed", "process_image_failed"}

-----------------------------------------------------------------------------
(* C1 *)

\* C1: once a process_audio or process_video request has ended, by a result or
\* by an exception, the scratch directory holds no file the request wrote.
C1_NoScratchFileLeft ==
    \A r \in Req :
        pc[r] = "done" /\ req[r].kind \in {"audio", "video"} => FilesOf(r) = {}

-----------------------------------------------------------------------------
(* C2 *)

TextCapabilities == {"sentiment", "ner", "summarization", "nlp", "embeddings"}

\* The capabilities of a text request that are loaded, are invoked on its text
\* and raise
TextFailures(q) ==
    {c \in TextCapabilities :
        /\ c \in models
        /\ q.env[c].raises
        /\ c = "summarization" => q.text.chars > SummaryMinChars}

TextOwned(c) ==
    CASE c = "sentiment" -> {"sentiment"}
      [] c = "ner" -> {"entities"}
      [] c = "summarization" -> {"summary"}
      [] c = "nlp" -> {"keywords", "topics"}
      [] c = "embeddings" -> {"embeddings"}

TextAnswers(c) ==
    CASE c = "sentiment" -> SentimentOutcomes
      [] c = "ner" -> NerOutcomes
      [] c = "summarization" -> SummarizationOutcomes
      [] c = "nlp" -> NlpOutcomes
      [] c = "embeddings" -> EmbeddingOutcomes

TextIsolated(r, c) ==
    LET q == req[r]
        fields == DOMAIN TextDefaults(q.text)
    IN  /\ Succeeded(r)
        /\ \A f \in TextOwned(c) : Results(r)[f] = TextDefaults(q.text)[f]
        /\ \A ok \in {o \in TextAnswers(c) : ~o.raises} :
               LET ref == process_text(models, q.text, [q.env EXCEPT ![c] = ok])
               IN  \A f \in fields \ TextOwned(c) : Results(r)[f] = ref.results[f]

ImageFailures(q) ==
    {c \in {"faces", "ocr"} :
        /\ q.env[c].raises
        /\ c = "faces" => "face_cascade" \in models
        /\ c = "ocr" => "pytesseract" \in globals}

ImageOwned(c) == IF c = "faces" THEN {"faces"} ELSE {"text"}

\* description and tags are derived from faces and text, and are left out
ImageIsolated(r, c) ==
    LET q == req[r]
        fields == DOMAIN ImageDefaults \ {"description", "tags"}
        answers == IF c = "faces" THEN FaceOutcomes ELSE OcrOutcomes
    IN  /\ Succeeded(r)
        /\ \A f \in ImageOwned(c) : Results(r)[f] = ImageDefaults[f]
        /\ \A ok \in {o \in answers : ~o.raises} :
               LET ref == process_image(globals, models, q.data, [q.env EXCEPT ![c] = ok])
               IN  \A f \in fields \ ImageOwned(c) : Results(r)[f] = ref.results[f]

\* C2: when one loaded capability of process_text, process_image or
\* process_audio raises, the request still gets a result, the capability's
\* field is at its default and the other fields are what they are when the
\* capability answers.
C2_OneFailureIsIsolated ==
    \A r \in Req :
        /\ Finished(r, "text") =>
               \A c \in TextCapabilities : TextFailures(req[r]) = {c} => TextIsolated(r, c)
        /\ Finished(r, "image") /\ req[r].data.kind = "image" /\ "imdecode" \in Events(r) =>
               \A c \in {"faces", "ocr"} : ImageFailures(req[r]) = {c} => ImageIsolated(r, c)
        /\ Finished(r, "audio") /\ "librosa_failed" \in Events(r) =>
               /\ Succeeded(r)
               /\ Results(r).audio_features = AudioDefaults.audio_features
        /\ Finished(r, "audio") /\ "sr.AudioFile_failed" \in Events(r) =>
               /\ Succeeded(r)
               /\ Results(r).transcription = AudioDefaults.transcription

-----------------------------------------------------------------------------
(* C3 *)

\* C3: every response of the four endpoints sets exactly one of results and
\* error: success is true exactly when results is set and error is not, and
\* false exactly when error is set and results is not.
C3_EnvelopeExactlyOne ==
    \A r \in Req :
        response[r] # None =>
            LET e == response[r][1]
            IN  /\ e.success \in BOOLEAN
                /\ (e.results # None) # (e.error # None)
                /\ e.success <=> (e.results # None /\ e.error = None)
                /\ ~e.success <=> (e.error # None /\ e.results = None)

\* A video request whose pipeline raised got an envelope with the error.
C3_Witness ==
    \E r \in Req :
        /\ Finished(r, "video")
        /\ "VideoFileClip_failed" \in Events(r)
        /\ response[r] = Some(ProcessingResponse(FALSE, None, Some("VideoFileClip")))

-----------------------------------------------------------------------------
(* C4 *)

\* C4: when a clip has an audio track and the audio branch of process_video
\* raises, the video request still gets a result, its audio field is None and
\* the frame branch has run.
C4_AudioBranchFailureDegrades ==
    \A r \in Req :
        Finished(r, "video") /\ Events(r) \cap AudioBranchFailures # {} =>
            /\ Succeeded(r)
            /\ Results(r).audio = None
            /\ Len(Results(r).scenes) = SampleCount(req[r].clip)
            /\ SampleCount(req[r].clip) > 0 => "process_image" \in Events(r)

-----------------------------------------------------------------------------
(* C5 *)

\* C5: when a frame of the loop of process_video cannot be extracted or
\* analysed, the request still gets a result, and scenes has one segment per
\* sample.
C5_FrameFailureDegradesOneSegment ==
    \A r \in Req :
        Finished(r, "video") /\ Events(r) \cap FrameFailures # {} =>
            /\ Succeeded(r)
            /\ Len(Results(r).scenes) = SampleCount(req[r].clip)

-----------------------------------------------------------------------------
(* C6 *)

\* C6: two requests under way at the same time never hold the same temp path.
C6_DistinctTempPaths ==
    \A r1, r2 \in Req : r1 # r2 => Held(r1) \cap Held(r2) = {}

-----------------------------------------------------------------------------
(* C7 *)

\* floor(D) and min(10, .), written out
FloorOfDuration(clip) ==
    CHOOSE k \in 0..clip.duration2 : 2 * k <= clip.duration2 /\ clip.duration2 < 2 * (k + 1)

ExpectedSamples(clip) ==
    IF FloorOfDuration(clip) < 10 THEN FloorOfDuration(clip) ELSE 10

\* C7: a video of duration D that process_video opened and analysed to the end
\* has min(10, floor(D)) scenes, none when D < 1; without an audio track its
\* audio field is None.
C7_SampleCount ==
    \A r \in Req :
        Finished(r, "video") /\ Succeeded(r) /\ "VideoFileClip" \in Events(r) =>
            /\ Len(Results(r).scenes) = ExpectedSamples(req[r].clip)
            /\ Cardinality({k \in DOMAIN calls[r] : calls[r][k] = "get_frame"})
                   = ExpectedSamples(req[r].clip)
            /\ req[r].clip.duration2 < 2 => Results(r).scenes = <<>>
            /\ ~req[r].clip.has_audio => Results(r).audio = None

\* A clip of 11 seconds or more without audio was analysed: 10 scenes.
C7_Witness ==
    \E r \in Req :
        /\ Finished(r, "video") /\ Succeeded(r) /\ "VideoFileClip" \in Events(r)
        /\ req[r].clip.duration2 >= 22
        /\ ~req[r].clip.has_audio
        /\ Len(Results(r).scenes) = 10
        /\ Results(r).audio = None

-----------------------------------------------------------------------------
(* C8 *)

SortedByStart(scenes) ==
    \A k \in 1..(Len(scenes) - 1) : FracLeq(scenes[k].start, scenes[k + 1].start)

\* C8: the scenes of a process_video result are in ascending order of start.
C8_ScenesSortedByStart ==
    \A r \in Req :
        Finished(r, "video") /\ Succeeded(r) => SortedByStart(Results(r).scenes)

\* A result with several scenes whose starts differ.
C8_Witness ==
    \E r \in Req :
        /\ Finished(r, "video") /\ Succeeded(r)
        /\ Len(Results(r).scenes) >= 3
        /\ FracLess(Results(r).scenes[1].start, Results(r).scenes[2].start)

-----------------------------------------------------------------------------
(* C9 *)

-----------------------------------------------------------------------------
(* C10 *)

\* C10: image bytes that do not decode get an envelope with success false, a
\* non-empty error and no results, and no analyzer runs on them.
C10_UndecodableImageFails ==
    \A r \in Req :
        Finished(r, "image") /\ req[r].data.kind # "image" =>
            /\ response[r] # None
            /\ ~response[r][1].success
            /\ response[r][1].results = None
            /\ response[r][1].error # None
            /\ response[r][1].error[1] # ""
            /\ Events(r) \cap Analyzers = {}

\* Bytes no codec reads reached cv2.imdecode, which returned None.
C10_Witness ==
    \E r \in Req :
        /\ Finished(r, "image")
        /\ req[r].data.kind = "garbage"
        /\ {"np", "cv2"} \subseteq globals
        /\ response[r] = Some(ProcessingResponse(FALSE, None, Some("Invalid image data")))

-----------------------------------------------------------------------------
(* C11 *)

\* The steps that fail because a file, a codec or a model call fails, whatever
\* the capabilities loaded
CollaboratorFailures ==
    {"file.read_failed", "open_audio_temp_failed", "write_audio_temp_failed",
     "librosa_failed", "open_video_temp_failed", "write_video_temp_failed",
     "VideoFileClip_failed", "write_audiofile_failed", "read_audio_failed",
     "get_frame_failed", "save_failed", "process_image_failed"}

\* A request of well-formed content, none of whose collaborators fails
StructurallyValid(r) ==
    LET q == req[r]
    IN  /\ Events(r) \cap CollaboratorFailures = {}
        /\ q.kind = "text" => \A c \in DOMAIN q.env : ~q.env[c].raises
        /\ q.kind = "image" =>
               q.data.kind = "image" /\ \A c \in DOMAIN q.env : ~q.env[c].raises
        /\ q.kind = "video" => ~q.clip.corrupt

\* The record of the pipeline of request r, and the fields each absent
\* capability leaves at their default
WellFormed(r) ==
    LET q == req[r]
        res == Results(r)
    IN  CASE q.kind = "text" ->
               /\ DOMAIN res = DOMAIN TextDefaults(q.text)
               /\ \A c \in TextCapabilities \ models :
                      \A f \in TextOwned(c) : res[f] = TextDefaults(q.text)[f]
          [] q.kind = "image" ->
               /\ DOMAIN res = DOMAIN ImageDefaults
               /\ "face_cascade" \notin models => res.faces = ImageDefaults.faces
               /\ "pytesseract" \notin globals => res.text = ImageDefaults.text
          [] q.kind = "audio" ->
               /\ DOMAIN res = DOMAIN AudioDefaults
               /\ "librosa" \notin globals =>
                      res.audio_features = AudioDefaults.audio_features
               /\ "speech_recognizer" \notin models =>
                      res.transcription = AudioDefaults.transcription
          [] q.kind = "video" ->
               /\ DOMAIN res = DOMAIN VideoDefaults
               /\ "VideoFileClip" \notin globals => res = VideoDefaults

\* C11: whatever the capabilities loaded, none included, a pipeline given
\* well-formed content returns a record with every declared field, the fields
\* of the absent capabilities at their default.
C11_WellFormedForAnyCapabilities ==
    \A r \in Req :
        pc[r] = "done" /\ StructurallyValid(r) => Succeeded(r) /\ WellFormed(r)

-----------------------------------------------------------------------------
(* C12 *)

AudioBranchSteps ==
    {"write_audiofile", "write_audiofile_failed", "read_audio", "read_audio_failed",
     "write_audio_temp", "open_audio_temp_failed", "write_audio_temp_failed",
     "librosa", "librosa_failed", "sr.AudioFile", "sr.AudioFile_failed",
     "unlink_audio_temp", "unlink_audio"}

FrameBranchSteps ==
    {"get_frame", "get_frame_failed", "save", "save_failed", "process_image",
     "process_image_failed", "clip.close"}

\* C12: when VideoFileClip cannot open the video written to the temp file, the
\* endpoint answers success false with an error and no results, no step of the
\* audio branch or of the frame loop has run, and the video temp file is gone
\* when the answer is given.
C12_ProbeFailureIsFatal ==
    \A r \in Req :
        Finished(r, "video") /\ "VideoFileClip_failed" \in Events(r) =>
            /\ response[r] # None
            /\ ~response[r][1].success
            /\ response[r][1].results = None
            /\ response[r][1].error # None
            /\ Events(r) \cap (AudioBranchSteps \cup FrameBranchSteps) = {}
            /\ ~Exists(loc[r].temp_path[1])
            /\ FilesOf(r) = {}

\* A corrupt video was written, failed to open and was removed.
C12_Witness ==
    \E r \in Req :
        /\ Finished(r, "video")
        /\ req[r].clip.corrupt
        /\ calls[r] = <<"write_video_temp", "VideoFileClip_failed", "unlink_video_temp">>
        /\ response[r] # None /\ ~response[r][1].success

-----------------------------------------------------------------------------
(* C13 *)

\* The sentiment field was filled from the answer of the sentiment model
SentimentFilled(r) ==
    /\ Finished(r, "text") /\ Succeeded(r)
    /\ "sentiment" \in Events(r)
    /\ ~req[r].env.sentiment.raises
    /\ req[r].env.sentiment.value # <<>>

\* C13: a sentiment filled from the sentiment model has a score between -1 and
\* 1 and a confidence between 0 and 1 (in hundredths), and a result labelled
\* "positive" has a score above 0.
C13_SentimentSignAgrees ==
    \A r \in Req :
        SentimentFilled(r) =>
            LET s == Results(r).sentiment
            IN  /\ -100 <= s.score /\ s.score <= 100
                /\ 0 <= s.confidence /\ s.confidence <= 100
                /\ s.label = "positive" => s.score > 0

-----------------------------------------------------------------------------
(* C14 *)

\* The speech block of process_audio was entered for request r
SpeechBlockEntered(r) == Events(r) \cap {"sr.AudioFile", "sr.AudioFile_failed"} # {}

\* C14: when the recognizer of an audio request understands no speech, or
\* cannot reach its service, the request succeeds with an empty transcription
\* text and confidence 0.
C14_NoSpeechIsNotAnError ==
    \A r \in Req :
        /\ Finished(r, "audio")
        /\ SpeechBlockEntered(r)
        /\ req[r].speech.raises
        /\ req[r].speech.exc.type \in {"UnknownValueError", "RequestError"}
        => /\ Succeeded(r)
           /\ Results(r).transcription.text = ""
           /\ Results(r).transcription.confidence = 0

-----------------------------------------------------------------------------
(* C15 *)

\* The i-th of n timestamps evenly spread over [0, D], both ends included
Timestamp(clip, n, i) ==
    IF n = 1 THEN Frac(0, 1) ELSE Frac((i - 1) * clip.duration2, 2 * (n - 1))

\* e = t + D / n, with D = duration2 / 2
EndsAfterShare(e, t, clip, n) ==
    e.num * (t.den * 2 * n) = (t.num * 2 * n + clip.duration2 * t.den) * e.den

\* What process_image returns for the frame of the clip of request r at time t
FrameAnalysis(r, t) ==
    process_image(globals, models, FrameData(GetFrame(req[r].clip, t)), req[r].env).results

\* C15: segment i of a process_video result starts at the i-th sample
\* timestamp t, ends at t + D / n, and carries the description and the objects
\* of the process_image result for the frame at t.
C15_SegmentFromFrame ==
    \A r \in Req :
        Finished(r, "video") /\ Succeeded(r) =>
            LET scenes == Results(r).scenes
                n == Len(scenes)
            IN  \A i \in 1..n :
                    LET t == Timestamp(req[r].clip, n, i)
                    IN  /\ scenes[i].start.num * t.den = t.num * scenes[i].start.den
                        /\ EndsAfterShare(scenes[i].end, t, req[r].clip, n)
                        /\ scenes[i].description = FrameAnalysis(r, t).description
                        /\ scenes[i].objects = FrameAnalysis(r, t).objects

\* A result whose first two segments show different pictures.
C15_Witness ==
    \E r \in Req :
        /\ Finished(r, "video") /\ Succeeded(r)
        /\ Len(Results(r).scenes) >= 3
        /\ Results(r).scenes[1].description # Results(r).scenes[2].description
        /\ FracLess(Results(r).scenes[2].start, Results(r).scenes[2].end)

-----------------------------------------------------------------------------
(* C16 *)

TempWriteFailures ==
    {"open_audio_temp_failed", "write_audio_temp_failed",
     "open_video_temp_failed", "write_video_temp_failed"}

\* The collaborators that work on the uploaded resource
ResourceCollaborators ==
    {"librosa", "librosa_failed", "sr.AudioFile", "sr.AudioFile_failed",
     "VideoFileClip", "VideoFileClip_failed", "write_audiofile", "write_audiofile_failed",
     "read_audio", "read_audio_failed", "get_frame", "get_frame_failed",
     "save", "save_failed", "process_image", "process_image_failed"}

\* C16: when process_audio or process_video cannot write the bytes to its temp
\* file, the request fails with that I/O error and no collaborator is invoked
\* after the failed write: no decoding, no recognition, no opening of the
\* video, no audio extraction, no frame analysis.
C16_WriteFailureStopsProcessing ==
    \A r \in Req :
        pc[r] = "done" =>
            \A k \in DOMAIN calls[r] :
                calls[r][k] \in TempWriteFailures =>
                    /\ response[r] # None
                    /\ ~response[r][1].success
                    /\ response[r][1].error \in {Some("open"), Some("write")}
                    /\ \A j \in (k + 1)..Len(calls[r]) :
                           calls[r][j] \notin ResourceCollaborators

\* The write of the audio extracted from a video failed inside process_audio:
\* the video request failed with the write error after removing its own file.
C16_Witness ==
    \E r \in Req :
        /\ Finished(r, "video")
        /\ "librosa" \in globals
        /\ calls[r] = <<"write_video_temp", "VideoFileClip", "write_audiofile", "read_audio",
                        "write_audio_temp_failed", "unlink_video_temp">>
        /\ response[r] = Some(ProcessingResponse(FALSE, None, Some("write")))

-----------------------------------------------------------------------------
(* C17 *)

\* The sentence the sub-results call for: the faces part, the text part and the
\* scene part, in this order, with ", " between two parts
ExpectedDescription(res) ==
    LET f == res.faces # <<>>
        x == res.text # <<>>
        s == res.scenes # <<>>
        comma == <<", ">>
    IN  IF ~f /\ ~x /\ ~s THEN <<"Image analysis completed">>
        ELSE <<"Image with ">>
             \o (IF f THEN Str(Len(res.faces)) \o <<" face(s) detected">> ELSE <<>>)
             \o (IF f /\ (x \/ s) THEN comma ELSE <<>>)
             \o (IF x THEN <<"contains text">> ELSE <<>>)
             \o (IF x /\ s THEN comma ELSE <<>>)
             \o (IF s THEN <<res.scenes[1].name, " scene">> ELSE <<>>)

\* C17: the description of a process_image result is "Image with " and the
\* parts its faces, its OCR text and its scene call for, in this order and
\* joined by ", " (the generic sentence without parts); its tags hold "people"
\* exactly when faces is not empty, "text" exactly when the OCR text is not
\* empty, and every scene name.
C17_DescriptionAndTags ==
    \A r \in Req :
        Finished(r, "image") /\ Succeeded(r) =>
            LET res == Results(r)
            IN  /\ res.description = ExpectedDescription(res)
                /\ "people" \in res.tags <=> res.faces # <<>>
                /\ "text" \in res.tags <=> res.text # <<>>
                /\ \A i \in DOMAIN res.scenes : res.scenes[i].name \in res.tags
                /\ res.tags \subseteq
                       {"people", "text"} \cup {res.scenes[i].name : i \in DOMAIN res.scenes}

\* Two faces, a text and a sky: the three parts, in order.
C17_Witness ==
    \E r \in Req :
        /\ Finished(r, "image") /\ Succeeded(r)
        /\ Results(r).description =
               <<"Image with ", "2", " face(s) detected", ", ", "contains text", ", ",
                 "outdoor", " scene">>
        /\ Results(r).tags = {"people", "text", "outdoor"}

-----------------------------------------------------------------------------
(* C18 *)

\* The pixels of the image of request r, as <<r, g, b>>
RGBOf(r) == BGR2RGB(req[r].data.pixels)

\* The sum of channel c over the pixels px
RECURSIVE SumOfChannel(_, _)
SumOfChannel(px, c) == IF px = <<>> THEN 0 ELSE Head(px)[c] + SumOfChannel(Tail(px), c)

\* The label the decision order calls for.  An average exceeds a threshold
\* when the sum exceeds the threshold times the number of pixels; the mean of
\* the three averages is the sum of all levels over three times that number.
ExpectedScene(px) ==
    LET n == Len(px)
        R == SumOfChannel(px, 1)
        G == SumOfChannel(px, 2)
        B == SumOfChannel(px, 3)
    IN  IF B > 150 * n /\ G > 100 * n THEN [name |-> "outdoor", confidence |-> 70]
        ELSE IF R + G + B < 100 * 3 * n THEN [name |-> "indoor", confidence |-> 60]
        ELSE [name |-> "mixed", confidence |-> 50]

\* C18: the scene of a process_image result is "outdoor" with confidence 0.7
\* when the blue average exceeds 150 and the green average exceeds 100,
\* otherwise "indoor" with confidence 0.6 when the mean of the three averages
\* is below 100, otherwise "mixed" with confidence 0.5.
C18_SceneDecisionOrder ==
    \A r \in Req :
        Finished(r, "image") /\ Succeeded(r) =>
            Results(r).scenes = <<ExpectedScene(RGBOf(r))>>

\* A dark picture with much blue and green is "outdoor": the first test wins.
C18_Witness ==
    \E r \in Req :
        /\ Finished(r, "image") /\ Succeeded(r)
        /\ Len(RGBOf(r)) >= 2
        /\ SumOfChannel(RGBOf(r), 3) > 150 * Len(RGBOf(r))
        /\ SumOfChannel(RGBOf(r), 2) > 100 * Len(RGBOf(r))
        /\ SumOfChannel(RGBOf(r), 1) + SumOfChannel(RGBOf(r), 2) + SumOfChannel(RGBOf(r), 3)
               < 300 * Len(RGBOf(r))
        /\ Results(r).scenes = <<[name |-> "outdoor", confidence |-> 70]>>

-----------------------------------------------------------------------------
(* C19 *)

\* The exact pixel values of px, and how many pixels have value v
DistinctValues(px) == {px[i] : i \in DOMAIN px}

PixelCount(px, v) == Cardinality({i \in DOMAIN px : px[i] = v})

\* Entry e reports value v of px: its hex triplet and count / total * 100
Reports(e, px, v) ==
    /\ e.hex = HexColor(v)
    /\ e.percentage.num * Len(px) = PixelCount(px, v) * 100 * e.percentage.den

\* The value of px that entry e reports
ValueOf(e, px) == CHOOSE v \in DistinctValues(px) : Reports(e, px, v)

\* C19: the colors of a process_image result are min(5, number of distinct
\* pixel values) entries, each the hex triplet of a distinct pixel value with
\* count / total pixels * 100 as its percentage, in non-increasing order of
\* count, no value left out being more frequent than one listed; analysing the
\* same decoded image again gives the same list.
C19_TopColors ==
    \A r \in Req :
        Finished(r, "image") /\ Succeeded(r) =>
            LET px == RGBOf(r)
                colors == Results(r).colors
                listed == {ValueOf(colors[k], px) : k \in DOMAIN colors}
                fewest == IF Cardinality(DistinctValues(px)) < 5
                          THEN Cardinality(DistinctValues(px)) ELSE 5
            IN  /\ Len(colors) = fewest
                /\ \A k \in DOMAIN colors : \E v \in DistinctValues(px) : Reports(colors[k], px, v)
                /\ Cardinality(listed) = Len(colors)
                /\ \A k \in 1..(Len(colors) - 1) :
                       PixelCount(px, ValueOf(colors[k], px))
                           >= PixelCount(px, ValueOf(colors[k + 1], px))
                /\ \A v \in DistinctValues(px) \ listed, w \in listed :
                       PixelCount(px, v) <= PixelCount(px, w)
                /\ colors = process_image(globals, models, req[r].data, req[r].env).results.colors

\* Six distinct values of different frequencies: five listed, the rarest left
\* out, the most frequent first.
C19_Witness ==
    \E r \in Req :
        /\ Finished(r, "image") /\ Succeeded(r)
        /\ Cardinality(DistinctValues(RGBOf(r))) = 6
        /\ Len(Results(r).colors) = 5
        /\ PixelCount(RGBOf(r), <<0, 101, 151>>) = 1
        /\ \A v \in DistinctValues(RGBOf(r)) \ {<<0, 101, 151>>} : PixelCount(RGBOf(r), v) = 2
        /\ \A k \in 1..5 : Results(r).colors[k].percentage = [num |-> 200, den |-> 11]
        /\ \A k \in 1..5 : Results(r).colors[k].hex # HexColor(<<0, 101, 151>>)

-----------------------------------------------------------------------------
(* C20 *)

\* C20: process_text calls the summarization model only when it is loaded and
\* the text has more than 500 characters; a text of 500 characters or fewer
\* has the empty summary; when the summarization call raises, the summary is
\* empty and, no other capability raising, process_text returns its result.
C20_SummarizationOnlyForLongText ==
    \A r \in Req :
        Finished(r, "text") =>
            LET q == req[r]
            IN  /\ "summarization" \in Events(r) =>
                       "summarization" \in models /\ q.text.chars > 500
                /\ Succeeded(r) /\ q.text.chars <= 500 => Results(r).summary = ""
                /\ Succeeded(r) /\ "summarization" \in Events(r) /\ q.env.summarization.raises =>
                       Results(r).summary = ""
                /\ "summarization" \in Events(r) /\ TextFailures(q) = {"summarization"} =>
                       Succeeded(r)

\* A text of 501 characters whose summarization raised: a result, no summary.
C20_Witness ==
    \E r \in Req :
        /\ Finished(r, "text") /\ Succeeded(r)
        /\ req[r].text.chars = 501
        /\ "summarization" \in Events(r)
        /\ req[r].env.summarization.raises
        /\ Results(r).summary = ""

-----------------------------------------------------------------------------
(* C21 *)

\* Fraction f is the duration D of the clip, D = duration2 / 2
IsDuration(f, clip) == f.num * 2 = clip.duration2 * f.den

\* C21: in a successful process_video result of n >= 2 segments, the first
\* segment starts at 0, the last starts at the duration D and ends at
\* D + D / n, past the end of the clip, and each segment ends strictly before
\* the next one starts.
C21_SegmentsLeaveGaps ==
    \A r \in Req :
        Finished(r, "video") /\ Succeeded(r) /\ Len(Results(r).scenes) >= 2 =>
            LET scenes == Results(r).scenes
                n == Len(scenes)
                clip == req[r].clip
            IN  /\ scenes[1].start.num = 0
                /\ IsDuration(scenes[n].start, clip)
                /\ EndsAfterShare(scenes[n].end, Duration(clip), clip, n)
                /\ FracLess(Duration(clip), scenes[n].end)
                /\ \A i \in 1..(n - 1) : FracLess(scenes[i].end, scenes[i + 1].start)

\* Ten segments of a clip of 11.5 seconds: a gap after the first, the last one
\* starting at 11.5.
C21_Witness ==
    \E r \in Req :
        /\ Finished(r, "video") /\ Succeeded(r)
        /\ req[r].clip.duration2 = 23
        /\ Len(Results(r).scenes) = 10
        /\ FracLess(Results(r).scenes[1].end, Results(r).scenes[2].start)
        /\ IsDuration(Results(r).scenes[10].start, req[r].clip)

-----------------------------------------------------------------------------
(* C22 *)

SceneNames == {"outdoor", "indoor", "mixed"}

\* C22: a process_image result has exactly one scene; its description starts
\* with "Image with " and ends with the scene name and " scene", so it is never
\* the generic sentence; its tags are not empty; its objects are empty, and so
\* are the objects of every segment of a process_video result.
C22_OneSceneNoObjects ==
    \A r \in Req :
        /\ Finished(r, "image") /\ Succeeded(r) =>
               LET res == Results(r)
                   d == res.description
               IN  /\ Len(res.scenes) = 1
                   /\ res.scenes[1].name \in SceneNames
                   /\ Len(d) >= 3
                   /\ d[1] = "Image with "
                   /\ d[Len(d) - 1] = res.scenes[1].name
                   /\ d[Len(d)] = " scene"
                   /\ d # <<"Image analysis completed">>
                   /\ res.tags # {}
                   /\ res.objects = <<>>
        /\ Finished(r, "video") /\ Succeeded(r) =>
               \A i \in DOMAIN Results(r).scenes : Results(r).scenes[i].objects = <<>>

\* A picture without faces or text: the scene is the only part and the only tag.
C22_Witness ==
    \E r \in Req :
        /\ Finished(r, "image") /\ Succeeded(r)
        /\ Results(r).faces = <<>> /\ Results(r).text = <<>>
        /\ Results(r).description = <<"Image with ", "mixed", " scene">>
        /\ Results(r).tags = {"mixed"}
        /\ Results(r).objects = <<>>

-----------------------------------------------------------------------------
(* C23 *)

\* Every occurrence of step b in the trace of request r comes after one of a
Before(r, a, b) ==
    \A k \in DOMAIN calls[r] :
        calls[r][k] = b => \E j \in 1..(k - 1) : calls[r][j] = a

FrameSteps == FrameBranchSteps \ {"clip.close"}

\* The frames request r has analysed so far
FramesAnalysed(r) == Cardinality({k \in DOMAIN calls[r] : calls[r][k] = "process_image"})

\* The audio branch is over before any frame step, and no step of it follows one
AudioBeforeFrames(r) ==
    \A k \in DOMAIN calls[r] :
        calls[r][k] \in FrameSteps =>
            /\ req[r].clip.has_audio =>
                   /\ loc[r].results.audio # None
                   /\ \E j \in 1..(k - 1) :
                          /\ calls[r][j] = "unlink_audio"
                          /\ \E i \in 1..(j - 1) : calls[r][i] = "unlink_audio_temp"
            /\ \A j \in (k + 1)..Len(calls[r]) : calls[r][j] \notin AudioBranchSteps

\* Each analysis directly follows the extraction and the coding of its frame,
\* and the k-th segment appended is that of the k-th timestamp
FramesInOrder(r) ==
    /\ \A k \in DOMAIN calls[r] :
           calls[r][k] = "process_image" =>
               k > 2 /\ calls[r][k - 1] = "save" /\ calls[r][k - 2] = "get_frame"
    /\ Len(loc[r].scenes) = FramesAnalysed(r)
    /\ FramesAnalysed(r) <= ExpectedSamples(req[r].clip)
    /\ \A k \in DOMAIN loc[r].scenes :
           LET t == Timestamp(req[r].clip, ExpectedSamples(req[r].clip), k)
           IN  loc[r].scenes[k].start.num * t.den = t.num * loc[r].scenes[k].start.den

\* The trace of a successful request ends with the closing of the clip (when
\* one was opened) and the deletion of the video temp file
SuccessEndsInOrder(r) ==
    LET n == Len(calls[r])
    IN  /\ n >= 2
        /\ calls[r][n] = "unlink_video_temp"
        /\ ~Exists(loc[r].temp_path[1])
        /\ "VideoFileClip" \in Events(r) =>
               /\ calls[r][n - 1] = "clip.close"
               /\ FramesAnalysed(r) = ExpectedSamples(req[r].clip)

\* C23: in a process_video invocation the video temp file is written before
\* the video is opened; the audio branch is over (process_audio returned, the
\* extracted audio file deleted) before the first frame is analysed; the
\* frames are analysed one at a time in ascending timestamp order, each once;
\* on success the clip is closed, then the video temp file deleted, then the
\* result returned.
C23_StepsInSequence ==
    \A r \in Req :
        req[r].kind = "video" =>
            /\ Before(r, "write_video_temp", "VideoFileClip")
            /\ Before(r, "write_video_temp", "VideoFileClip_failed")
            /\ AudioBeforeFrames(r)
            /\ FramesInOrder(r)
            /\ Succeeded(r) => SuccessEndsInOrder(r)

\* A clip with an audio track and two samples, analysed to the end.
C23_Witness ==
    \E r \in Req :
        /\ Finished(r, "video") /\ Succeeded(r)
        /\ calls[r] = <<"write_video_temp", "VideoFileClip", "write_audiofile", "read_audio",
                        "write_audio_temp", "librosa", "unlink_audio_temp", "unlink_audio",
                        "get_frame", "save", "process_image",
                        "get_frame", "save", "process_image",
                        "clip.close", "unlink_video_temp">>

=============================================================================
